---- MODULE Spec2Model ----
(***************************************************************************)
(* A model of the SQL tokenizer (src/src/tokenizer.rs) and of the          *)
(* recursive-descent / precedence-climbing parser (src/src/parser.rs).     *)
(*                                                                         *)
(* Representation.                                                         *)
(*  - A character is a one-character string; LongS stands for the single   *)
(*    character U+017F, a letter outside ASCII whose uppercase is "S".     *)
(*  - An input (&str) is a sequence of characters.                         *)
(*  - Peekable<Chars> is [input, taken]: the input together with the       *)
(*    number of characters already taken from it (peek never takes one).   *)
(*  - A u64 is its decimal digit sequence without leading zeros, so that   *)
(*    the 64-bit range is exact.                                           *)
(*  - Token, Expression, Constraint, TableColumn and Statement values are  *)
(*    records tagged by their variant; a Keyword variant is named by its   *)
(*    upper-case spelling in the tokenizer's table.                        *)
(*  - Result<T, String> is [ok, val]; every parser method also returns the *)
(*    parser it leaves behind, in field p.                                 *)
(***************************************************************************)
EXTENDS Integers, Sequences, FiniteSets, TLC

VARIABLES shape, input, tokenizer, emitted, parser, result, called, calls

vars == <<shape, input, tokenizer, emitted, parser, result, called, calls>>

(***************************************************************************)
(* Characters                                                              *)
(***************************************************************************)
LongS == "U+017F"

AsciiLower ==
  <<"a","b","c","d","e","f","g","h","i","j","k","l","m",
    "n","o","p","q","r","s","t","u","v","w","x","y","z">>

AsciiUpper ==
  <<"A","B","C","D","E","F","G","H","I","J","K","L","M",
    "N","O","P","Q","R","S","T","U","V","W","X","Y","Z">>

DigitChars == <<"0","1","2","3","4","5","6","7","8","9">>

Range(s) == {s[i] : i \in 1..Len(s)}

IndexOf(s, c) == CHOOSE i \in 1..Len(s) : s[i] = c

\* '0'..='9' and char::is_digit(10)
is_digit(c) == c \in Range(DigitChars)

\* 'a'..='z' | 'A'..='Z'
is_ascii_letter(c) == c \in Range(AsciiLower) \cup Range(AsciiUpper)

\* char::is_alphanumeric: Unicode letters and digits
is_alphanumeric(c) == is_ascii_letter(c) \/ is_digit(c) \/ c = LongS

\* char::is_whitespace
is_whitespace(c) == c \in {" ", "\t"}

\* char::to_uppercase on the characters of the model
char_to_uppercase(c) ==
  IF c \in Range(AsciiLower) THEN AsciiUpper[IndexOf(AsciiLower, c)]
  ELSE IF c = LongS THEN "S"
  ELSE c

\* str::to_uppercase
to_uppercase(s) == [i \in 1..Len(s) |-> char_to_uppercase(s[i])]

(***************************************************************************)
(* Tokens                                                                  *)
(***************************************************************************)
Tok(kind) == [kind |-> kind, val |-> <<>>]

TokNumber(n) == [kind |-> "Number", val |-> n]

TokString(s) == [kind |-> "String", val |-> s]

TokIdentifier(id) == [kind |-> "Identifier", val |-> id]

TokKeyword(k) == [kind |-> "Keyword", val |-> k]

TokInvalid(c) == [kind |-> "Invalid", val |-> <<c>>]

Eof == Tok("Eof")

\* Option<Token>::None, the end-of-sequence signal of the iterator
None == Tok("None")

kSELECT == <<"S","E","L","E","C","T">>

kCREATE == <<"C","R","E","A","T","E">>

kTABLE == <<"T","A","B","L","E">>

kWHERE == <<"W","H","E","R","E">>

kORDER == <<"O","R","D","E","R">>

kBY == <<"B","Y">>

kASC == <<"A","S","C">>

kDESC == <<"D","E","S","C">>

kFROM == <<"F","R","O","M">>

kAND == <<"A","N","D">>

kOR == <<"O","R">>

kNOT == <<"N","O","T">>

kTRUE == <<"T","R","U","E">>

kFALSE == <<"F","A","L","S","E">>

kPRIMARY == <<"P","R","I","M","A","R","Y">>

kKEY == <<"K","E","Y">>

kCHECK == <<"C","H","E","C","K">>

kINT == <<"I","N","T">>

kBOOL == <<"B","O","O","L">>

kVARCHAR == <<"V","A","R","C","H","A","R">>

kNULL == <<"N","U","L","L">>

\* the arms of the match in read_identifier_or_keyword, in source order
KeywordTable ==
  <<kSELECT, kCREATE, kTABLE, kWHERE, kORDER, kBY, kASC, kDESC, kFROM, kAND,
    kOR, kNOT, kTRUE, kFALSE, kPRIMARY, kKEY, kCHECK, kINT, kBOOL, kVARCHAR,
    kNULL>>

(***************************************************************************)
(* Tokenizer.  Every method takes the input and the number of characters   *)
(* taken so far, and returns the token with the new number.                *)
(***************************************************************************)
RECURSIVE skip_whitespace(_, _)
skip_whitespace(inp, pos) ==
  IF pos < Len(inp) /\ is_whitespace(inp[pos + 1])
  THEN skip_whitespace(inp, pos + 1)
  ELSE pos

\* the loop `while let Some(&c) = peek() { if !digit {break}; push; next }`
RECURSIVE take_digits(_, _)
take_digits(inp, pos) ==
  IF pos < Len(inp) /\ is_digit(inp[pos + 1])
  THEN take_digits(inp, pos + 1)
  ELSE pos

\* u64::MAX = 18446744073709551615
U64MaxDigits ==
  <<"1","8","4","4","6","7","4","4","0","7","3","7","0","9","5","5","1","6","1","5">>

RECURSIVE strip_zeros(_)
strip_zeros(ds) ==
  IF Len(ds) > 1 /\ ds[1] = "0" THEN strip_zeros(Tail(ds)) ELSE ds

\* ds <= es for digit sequences of one length
RECURSIVE digits_leq(_, _)
digits_leq(ds, es) ==
  IF ds = <<>> THEN TRUE
  ELSE IF ds[1] # es[1]
       THEN IndexOf(DigitChars, ds[1]) < IndexOf(DigitChars, es[1])
       ELSE digits_leq(Tail(ds), Tail(es))

\* str::parse::<u64> of a non-empty string of digits: Ok(n) unless n > u64::MAX
parse_u64(number) ==
  LET n == strip_zeros(number)
  IN  IF Len(n) < Len(U64MaxDigits)
         \/ (Len(n) = Len(U64MaxDigits) /\ digits_leq(n, U64MaxDigits))
      THEN [ok |-> TRUE, n |-> n]
      ELSE [ok |-> FALSE, n |-> <<>>]

\* the token of read_number, from what parse::<u64> returned
number_token(parsed, first_digit) ==
  IF parsed.ok THEN TokNumber(parsed.n) ELSE TokInvalid(first_digit)

\* read_number once the digits end after `end` characters
number_until(inp, pos, end, first_digit) ==
  [tok |-> number_token(parse_u64(<<first_digit>> \o SubSeq(inp, pos + 1, end)),
                        first_digit),
   pos |-> end]

read_number(inp, pos, first_digit) ==
  number_until(inp, pos, take_digits(inp, pos), first_digit)

RECURSIVE take_word(_, _)
take_word(inp, pos) ==
  IF pos < Len(inp) /\ (is_alphanumeric(inp[pos + 1]) \/ inp[pos + 1] = "_")
  THEN take_word(inp, pos + 1)
  ELSE pos

\* keyword_or_identifier matching the text as written, not uppercased
keyword_or_identifier_as_written(identifier) ==
  IF \E i \in 1..Len(KeywordTable) : KeywordTable[i] = identifier
  THEN TokKeyword(identifier)
  ELSE TokIdentifier(identifier)

\* the match on upper_identifier.as_str()
keyword_or_identifier(identifier) ==
  LET upper_identifier == to_uppercase(identifier)
  IN  IF \E i \in 1..Len(KeywordTable) : KeywordTable[i] = upper_identifier
      THEN TokKeyword(upper_identifier)
      ELSE TokIdentifier(identifier)

\* read_identifier_or_keyword once the word ends after `end` characters
word_until(inp, pos, end, first_char) ==
  [tok |-> keyword_or_identifier(<<first_char>> \o SubSeq(inp, pos + 1, end)),
   pos |-> end]

read_identifier_or_keyword(inp, pos, first_char) ==
  word_until(inp, pos, take_word(inp, pos), first_char)

\* the number of characters before the next quote_char, or the rest of the
\* input when there is none
RECURSIVE find_quote(_, _, _)
\* find_quote stopping at a quote of either kind
find_quote_either(inp, pos, quote_char) ==
  IF pos < Len(inp) /\ inp[pos + 1] \notin {"'", "\""}
  THEN find_quote(inp, pos + 1, quote_char)
  ELSE pos

find_quote(inp, pos, quote_char) ==
  IF pos < Len(inp) /\ inp[pos + 1] # quote_char
  THEN find_quote(inp, pos + 1, quote_char)
  ELSE pos

\* read_string once the scan stops after `end` characters
string_until(inp, pos, end, quote_char) ==
  IF end < Len(inp)
  THEN [tok |-> TokString(SubSeq(inp, pos + 1, end)), pos |-> end + 1]
  ELSE [tok |-> TokInvalid(quote_char), pos |-> end]

read_string(inp, pos, quote_char) ==
  string_until(inp, pos, find_quote(inp, pos, quote_char), quote_char)

\* the arms `if let Some(&'=') = peek() { next(); A } else { B }`
or_equal(inp, pos, withEq, without) ==
  IF pos < Len(inp) /\ inp[pos + 1] = "="
  THEN [tok |-> withEq, pos |-> pos + 1]
  ELSE [tok |-> without, pos |-> pos]

\* the match of next on next_char, taken as character number pos
token_at(inp, pos, next_char) ==
  IF is_digit(next_char) THEN read_number(inp, pos, next_char)
  ELSE IF is_ascii_letter(next_char) \/ next_char = "_"
    THEN read_identifier_or_keyword(inp, pos, next_char)
  ELSE IF next_char \in {"'", "\""} THEN read_string(inp, pos, next_char)
  ELSE IF next_char = "(" THEN [tok |-> Tok("LeftParentheses"), pos |-> pos]
  ELSE IF next_char = ")" THEN [tok |-> Tok("RightParentheses"), pos |-> pos]
  ELSE IF next_char = ">"
    THEN or_equal(inp, pos, Tok("GreaterThanOrEqual"), Tok("GreaterThan"))
  ELSE IF next_char = "<"
    THEN or_equal(inp, pos, Tok("LessThanOrEqual"), Tok("LessThan"))
  ELSE IF next_char = "=" THEN [tok |-> Tok("Equal"), pos |-> pos]
  ELSE IF next_char = "!"
    THEN or_equal(inp, pos, Tok("NotEqual"), TokInvalid("!"))
  ELSE IF next_char = "*" THEN [tok |-> Tok("Star"), pos |-> pos]
  ELSE IF next_char = "/" THEN [tok |-> Tok("Divide"), pos |-> pos]
  ELSE IF next_char = "-" THEN [tok |-> Tok("Minus"), pos |-> pos]
  ELSE IF next_char = "+" THEN [tok |-> Tok("Plus"), pos |-> pos]
  ELSE IF next_char = "," THEN [tok |-> Tok("Comma"), pos |-> pos]
  ELSE IF next_char = ";" THEN [tok |-> Tok("Semicolon"), pos |-> pos]
  ELSE [tok |-> TokInvalid(next_char), pos |-> pos]

\* next after skip_whitespace has left pos characters taken
next_from(inp, pos) ==
  IF pos >= Len(inp) THEN [tok |-> None, pos |-> pos]
  ELSE token_at(inp, pos + 1, inp[pos + 1])

\* Iterator::next for Tokenizer, on the input and the characters taken
tokenizer_next(inp, pos) == next_from(inp, skip_whitespace(inp, pos))

\* Tokenizer::new
tokenizer_new(inp) == [input |-> inp, taken |-> 0]

\* the Option<Token> n.tok, with the tokenizer over inp left behind
returned(inp, n) == [tok |-> n.tok, t |-> [input |-> inp, taken |-> n.pos]]

\* Iterator::next on the Tokenizer object T
next(T) == returned(T.input, tokenizer_next(T.input, T.taken))

(***************************************************************************)
(* AST values                                                              *)
(***************************************************************************)
ExprNumber(n) == [node |-> "Number", value |-> n]

ExprString(s) == [node |-> "String", value |-> s]

ExprIdentifier(id) == [node |-> "Identifier", value |-> id]

ExprBool(b) == [node |-> "Bool", value |-> b]

UnaryOperation(operand, operator) ==
  [node |-> "UnaryOperation", operand |-> operand, operator |-> operator]

BinaryOperation(left, operator, right) ==
  [node |-> "BinaryOperation", left_operand |-> left, operator |-> operator,
   right_operand |-> right]

DBInt == [node |-> "Int"]

DBBool == [node |-> "Bool"]

DBVarchar(size) == [node |-> "Varchar", size |-> size]

PrimaryKey == [node |-> "PrimaryKey"]

NotNull == [node |-> "NotNull"]

Check(expr) == [node |-> "Check", expr |-> expr]

TableColumn(name, type, constraints) ==
  [column_name |-> name, column_type |-> type, constraints |-> constraints]

NoWhere == [node |-> "None"]

SomeWhere(e) == [node |-> "Some", value |-> e]

Select(columns, from, where, orderby) ==
  [node |-> "Select", columns |-> columns, from |-> from, where |-> where,
   orderby |-> orderby]

CreateTable(table_name, column_list) ==
  [node |-> "CreateTable", table_name |-> table_name, column_list |-> column_list]

(***************************************************************************)
(* Parser.  P is the parser: tokenizer, current_token, and the history     *)
(* field consumed: the tokens advance has discarded, each with the number  *)
(* of characters taken when it was discarded (the position right after     *)
(* the token).                                                             *)
(***************************************************************************)
Ok(P, v) == [ok |-> TRUE, val |-> v, p |-> P]

Err(P, msg) == [ok |-> FALSE, val |-> [node |-> "Err", msg |-> msg], p |-> P]

\* the operator `?`: r? followed by K, which gets the Ok value r
Try(r, K(_)) == IF r.ok THEN K(r) ELSE r

\* the token as the tokenizer returned it, None not replaced by Eof
unwrap_kept(tok) == tok

\* Option::unwrap_or(Token::Eof)
unwrap_or_eof(tok) == IF tok = None THEN Eof ELSE tok

\* the parser whose tokenizer has just returned n, with what it has consumed
\* and where its calls and loops have been entered
pulled(n, consumed, entered) ==
  [tokenizer |-> n.t, current_token |-> unwrap_or_eof(n.tok),
   consumed |-> consumed, entered |-> entered]

\* Parser::new
parser_new(inp) == pulled(next(tokenizer_new(inp)), <<>>, <<>>)

advance(P) ==
  pulled(next(P.tokenizer),
         Append(P.consumed, [tok |-> P.current_token, end |-> P.tokenizer.taken]),
         P.entered)

\* control enters `at` (a call of parse_expression, or the body of one turn
\* of a loop) with so many tokens consumed
enter(P, at) ==
  [P EXCEPT !.entered = Append(@, [at |-> at, consumed |-> Len(P.consumed)])]

\* expect_token that takes any token for the expected one
expect_token_any(P, expected) == Ok(advance(P), <<>>)

\* expect_token that does not advance over the expected token
expect_token_stays(P, expected) ==
  IF P.current_token = expected
  THEN Ok(P, <<>>)
  ELSE Err(P, "Expected token")

expect_token(P, expected) ==
  IF P.current_token = expected
  THEN Ok(advance(P), <<>>)
  ELSE Err(P, "Expected token")

\* get_precedence with the additive and the multiplicative rank exchanged
get_precedence_exchanged(operator) ==
  CASE operator = "Or" -> 1
    [] operator = "And" -> 2
    [] operator \in {"Equal", "NotEqual"} -> 3
    [] operator \in {"GreaterThan", "GreaterThanOrEqual",
                     "LessThan", "LessThanOrEqual"} -> 4
    [] operator \in {"Plus", "Minus"} -> 6
    [] operator \in {"Multiply", "Divide"} -> 5

get_precedence(operator) ==
  CASE operator = "Or" -> 1
    [] operator = "And" -> 2
    [] operator \in {"Equal", "NotEqual"} -> 3
    [] operator \in {"GreaterThan", "GreaterThanOrEqual",
                     "LessThan", "LessThanOrEqual"} -> 4
    [] operator \in {"Plus", "Minus"} -> 5
    [] operator \in {"Multiply", "Divide"} -> 6

\* Option<BinaryOperator>; "None" is Option::None
get_binary_operator(token) ==
  CASE token.kind = "Plus" -> "Plus"
    [] token.kind = "Minus" -> "Minus"
    [] token.kind = "Star" -> "Multiply"
    [] token.kind = "Divide" -> "Divide"
    [] token.kind = "GreaterThan" -> "GreaterThan"
    [] token.kind = "GreaterThanOrEqual" -> "GreaterThanOrEqual"
    [] token.kind = "LessThan" -> "LessThan"
    [] token.kind = "LessThanOrEqual" -> "LessThanOrEqual"
    [] token.kind = "Equal" -> "Equal"
    [] token.kind = "NotEqual" -> "NotEqual"
    [] token = TokKeyword(kAND) -> "And"
    [] token = TokKeyword(kOR) -> "Or"
    [] OTHER -> "None"

\* loop_breaks with `<` for `<=`
loop_breaks_strict(op_precedence, precedence) == op_precedence < precedence

\* the test `op_precedence <= precedence` that breaks the climbing loop
loop_breaks(op_precedence, precedence) == op_precedence <= precedence

RECURSIVE parse_expression(_, _)
RECURSIVE parse_primary(_)
RECURSIVE climb(_, _, _)

\* the minimum binding power a prefix operator parses its operand at
PrefixPrecedence == 7

\* prefix_operation with the operand parsed at binding power 0
prefix_operation_loose(P, operator) ==
  Try(parse_expression(P, 0),
      LAMBDA r : Ok(r.p, UnaryOperation(r.val, operator)))

\* the arms Token::Minus, Token::Plus, Keyword::Not of parse_primary
prefix_operation(P, operator) ==
  Try(parse_expression(P, PrefixPrecedence),
      LAMBDA r : Ok(r.p, UnaryOperation(r.val, operator)))

\* the arm Token::LeftParentheses of parse_primary
parenthesized(P) ==
  Try(parse_expression(P, 0),
      LAMBDA r : IF r.p.current_token # Tok("RightParentheses")
                 THEN Err(r.p, "Expected closing parenthesis")
                 ELSE Ok(advance(r.p), r.val))

\* the match of parse_primary on the token it has advanced over
primary_of(token, P) ==
  CASE token.kind = "Number" -> Ok(P, ExprNumber(token.val))
    [] token.kind = "String" -> Ok(P, ExprString(token.val))
    [] token.kind = "Identifier" -> Ok(P, ExprIdentifier(token.val))
    [] token = TokKeyword(kTRUE) -> Ok(P, ExprBool(TRUE))
    [] token = TokKeyword(kFALSE) -> Ok(P, ExprBool(FALSE))
    [] token.kind = "Star" -> Ok(P, ExprIdentifier(<<"*">>))
    [] token.kind = "LeftParentheses" -> parenthesized(P)
    [] token.kind = "Minus" -> prefix_operation(P, "Minus")
    [] token.kind = "Plus" -> prefix_operation(P, "Plus")
    [] token = TokKeyword(kNOT) -> prefix_operation(P, "Not")
    [] OTHER -> Err(P, "Unexpected token")

parse_primary(P) == primary_of(P.current_token, advance(P))

\* one turn of the `while let Some(operator) = get_binary_operator(..)` loop
\* of parse_expression, with the left operand parsed so far
climb_with(P, left, operator, precedence) ==
  IF operator = "None" THEN Ok(P, left)
  ELSE IF loop_breaks(get_precedence(operator), precedence) THEN Ok(P, left)
  ELSE Try(parse_expression(advance(enter(P, "loop of parse_expression")),
                            get_precedence(operator)),
           LAMBDA r : climb(r.p, BinaryOperation(left, operator, r.val), precedence))

climb(P, left, precedence) ==
  climb_with(P, left, get_binary_operator(P.current_token), precedence)

parse_expression(P, precedence) ==
  Try(parse_primary(enter(P, "parse_expression")),
      LAMBDA r : climb(r.p, r.val, precedence))

\* the loop of parse_select_columns, entered with the columns pushed so far
RECURSIVE select_columns_loop(_, _)
\* select_columns_loop pushing each column at the front
select_columns_loop_front(P, columns) ==
  Try(parse_expression(enter(P, "loop of parse_select_columns"), 0),
      LAMBDA r : IF r.p.current_token = Tok("Comma")
                 THEN select_columns_loop(advance(r.p), <<r.val>> \o columns)
                 ELSE Ok(r.p, <<r.val>> \o columns))

select_columns_loop(P, columns) ==
  Try(parse_expression(enter(P, "loop of parse_select_columns"), 0),
      LAMBDA r : IF r.p.current_token = Tok("Comma")
                 THEN select_columns_loop(advance(r.p), Append(columns, r.val))
                 ELSE Ok(r.p, Append(columns, r.val)))

parse_select_columns(P) == select_columns_loop(P, <<>>)

\* direction that consumes ASC and DESC without tagging the key
direction_untagged(P, expr) ==
  IF P.current_token \in {TokKeyword(kASC), TokKeyword(kDESC)}
  THEN Ok(advance(P), expr)
  ELSE Ok(P, expr)

\* the `match self.current_token` of parse_orderby, after the key expr
direction(P, expr) ==
  IF P.current_token = TokKeyword(kASC)
    THEN Ok(advance(P), UnaryOperation(expr, "Asc"))
  ELSE IF P.current_token = TokKeyword(kDESC)
    THEN Ok(advance(P), UnaryOperation(expr, "Desc"))
  ELSE Ok(P, expr)

\* the loop of parse_orderby, entered with the keys pushed so far
RECURSIVE orderby_loop(_, _)
orderby_loop(P, orderby) ==
  Try(parse_expression(enter(P, "loop of parse_orderby"), 0),
      LAMBDA r :
        Try(direction(r.p, r.val),
            LAMBDA d : IF d.p.current_token = Tok("Comma")
                       THEN orderby_loop(advance(d.p), Append(orderby, d.val))
                       ELSE Ok(d.p, Append(orderby, d.val))))

parse_orderby(P) == orderby_loop(P, <<>>)

\* `size as usize`; usize is 64 bits wide on the targets modelled
as_usize(size) == size

\* the arm Keyword::Varchar of parse_column_type, after its advance
varchar_size(P) ==
  Try(expect_token(P, Tok("LeftParentheses")),
      LAMBDA l :
        IF l.p.current_token.kind = "Number"
        THEN Try(expect_token(advance(l.p), Tok("RightParentheses")),
                 LAMBDA r : Ok(r.p, DBVarchar(as_usize(l.p.current_token.val))))
        ELSE Err(l.p, "Expected number for VARCHAR size"))

parse_column_type(P) ==
  IF P.current_token = TokKeyword(kINT) THEN Ok(advance(P), DBInt)
  ELSE IF P.current_token = TokKeyword(kBOOL) THEN Ok(advance(P), DBBool)
  ELSE IF P.current_token = TokKeyword(kVARCHAR) THEN varchar_size(advance(P))
  ELSE Err(P, "Expected a valid data type")

\* the arm Keyword::Check of parse_column_constraints, after its advance
check_constraint(P) ==
  Try(expect_token(P, Tok("LeftParentheses")),
      LAMBDA l :
        Try(parse_expression(l.p, 0),
            LAMBDA e :
              Try(expect_token(e.p, Tok("RightParentheses")),
                  LAMBDA r : Ok(r.p, Check(e.val)))))

\* keyword_pair that takes any token for the second keyword
keyword_pair_any(P, second, constraint, msg) == Ok(advance(P), constraint)

\* the arms Keyword::Primary and Keyword::Not of parse_column_constraints,
\* after their advance: the keyword that must follow, and the constraint
keyword_pair(P, second, constraint, msg) ==
  IF P.current_token = TokKeyword(second)
  THEN Ok(advance(P), constraint)
  ELSE Err(P, msg)

\* the scrutinee of the `while let Some(constraint) = match ..` loop:
\* Ok(Some(c)) is Ok with c, Ok(None) is Ok with [node |-> "None"]
next_constraint(P) ==
  IF P.current_token = TokKeyword(kPRIMARY)
    THEN keyword_pair(advance(enter(P, "loop of parse_column_constraints")),
                      kKEY, PrimaryKey, "Expected KEY after PRIMARY")
  ELSE IF P.current_token = TokKeyword(kNOT)
    THEN keyword_pair(advance(enter(P, "loop of parse_column_constraints")),
                      kNULL, NotNull, "Expected NULL after NOT")
  ELSE IF P.current_token = TokKeyword(kCHECK)
    THEN check_constraint(advance(enter(P, "loop of parse_column_constraints")))
  ELSE Ok(P, [node |-> "None"])

RECURSIVE constraints_loop(_, _)
constraints_loop(P, constraints) ==
  Try(next_constraint(P),
      LAMBDA c : IF c.val = [node |-> "None"] THEN Ok(c.p, constraints)
                 ELSE constraints_loop(c.p, Append(constraints, c.val)))

parse_column_constraints(P) == constraints_loop(P, <<>>)

parse_column_definition(P) ==
  IF P.current_token.kind = "Identifier"
  THEN Try(parse_column_type(advance(P)),
           LAMBDA t :
             Try(parse_column_constraints(t.p),
                 LAMBDA c : Ok(c.p, TableColumn(P.current_token.val, t.val, c.val))))
  ELSE Err(P, "Expected column name")

\* the loop of parse_create_table, entered with the columns pushed so far
RECURSIVE column_list_loop(_, _)
column_list_loop(P, column_list) ==
  Try(parse_column_definition(enter(P, "loop of parse_create_table")),
      LAMBDA d :
        IF d.p.current_token = Tok("Comma")
          THEN column_list_loop(advance(d.p), Append(column_list, d.val))
        ELSE IF d.p.current_token = Tok("RightParentheses")
          THEN Ok(advance(d.p), Append(column_list, d.val))
        ELSE Err(d.p, "Expected ',' or ')'"))

\* parse_create_table from the table name on
create_table_named(P) ==
  IF P.current_token.kind # "Identifier" THEN Err(P, "Expected table name")
  ELSE Try(expect_token(advance(P), Tok("LeftParentheses")),
           LAMBDA l :
             Try(column_list_loop(l.p, <<>>),
                 LAMBDA cl :
                   Try(expect_token(cl.p, Tok("Semicolon")),
                       LAMBDA s : Ok(s.p, CreateTable(P.current_token.val, cl.val)))))

parse_create_table(P) == create_table_named(advance(P))

\* the optional WHERE clause of parse_select
select_where(P) ==
  IF P.current_token = TokKeyword(kWHERE)
  THEN Try(parse_expression(advance(P), 0), LAMBDA w : Ok(w.p, SomeWhere(w.val)))
  ELSE Ok(P, NoWhere)

\* parse_select after ORDER: BY and the keys
orderby_by(P) ==
  IF P.current_token # TokKeyword(kBY)
  THEN Err(P, "Expected BY after ORDER")
  ELSE parse_orderby(advance(P))

\* the optional ORDER BY clause of parse_select
select_orderby(P) ==
  IF P.current_token = TokKeyword(kORDER) THEN orderby_by(advance(P)) ELSE Ok(P, <<>>)

\* parse_select from the table name on, with the columns parsed
select_from(P, columns) ==
  IF P.current_token.kind # "Identifier" THEN Err(P, "Expected table name")
  ELSE Try(select_where(advance(P)),
           LAMBDA w :
             Try(select_orderby(w.p),
                 LAMBDA o :
                   Try(expect_token(o.p, Tok("Semicolon")),
                       LAMBDA s :
                         Ok(s.p, Select(columns, P.current_token.val, w.val, o.val)))))

parse_select(P) ==
  Try(parse_select_columns(P),
      LAMBDA c : IF c.p.current_token # TokKeyword(kFROM)
                 THEN Err(c.p, "Expected FROM clause")
                 ELSE select_from(advance(c.p), c.val))

\* parse_statement after CREATE
create_table(P) ==
  IF P.current_token # TokKeyword(kTABLE)
  THEN Err(P, "Expected TABLE after CREATE")
  ELSE parse_create_table(P)

parse_statement(P) ==
  IF P.current_token = TokKeyword(kSELECT) THEN parse_select(advance(P))
  ELSE IF P.current_token = TokKeyword(kCREATE) THEN create_table(advance(P))
  ELSE Err(P, "Expected SELECT or CREATE")

(***************************************************************************)
(* Inputs.  An input is rendered from a shape: the lexemes it is made of.  *)
(* The tables below pair each lexeme with the value the specification      *)
(* gives it; the parser and the tokenizer never see them.                  *)
(***************************************************************************)
MaxCols == 2

MaxKeys == 2

MaxConstraints == 2

MaxColumns == 2

MaxCalls == 2

MaxEndCalls == 2

MaxNoiseAt == 70

MaxStringLen == 3

RECURSIVE Cat(_)
Cat(ss) == IF ss = <<>> THEN <<>> ELSE Head(ss) \o Cat(Tail(ss))

\* the lexemes ws, one space between two of them
RECURSIVE Words(_)
Words(ws) ==
  IF ws = <<>> THEN <<>>
  ELSE IF Len(ws) = 1 THEN ws[1]
  ELSE ws[1] \o <<" ">> \o Words(Tail(ws))

\* the sequences ls[1], sep, ls[2], sep, ... as one sequence of lexemes
RECURSIVE Separated(_, _)
Separated(ls, sep) ==
  IF ls = <<>> THEN <<>>
  ELSE IF Len(ls) = 1 THEN ls[1]
  ELSE ls[1] \o <<sep>> \o Separated(Tail(ls), sep)

SeqsUpTo(S, lo, hi) == UNION {[1..n -> S] : n \in lo..hi}

Lower(c) ==
  IF c \in Range(AsciiUpper) THEN AsciiLower[IndexOf(AsciiUpper, c)] ELSE c

\* every mix of upper and lower case of the spelling k
RECURSIVE CaseMixes(_)
CaseMixes(k) ==
  IF k = <<>> THEN {<<>>}
  ELSE {<<c>> \o w : c \in {k[1], Lower(k[1])}, w \in CaseMixes(Tail(k))}

Atoms ==
  <<[lex |-> <<"a">>, expr |-> ExprIdentifier(<<"a">>)],
    [lex |-> <<"b">>, expr |-> ExprIdentifier(<<"b">>)],
    [lex |-> <<"c">>, expr |-> ExprIdentifier(<<"c">>)],
    [lex |-> <<"1">>, expr |-> ExprNumber(<<"1">>)],
    [lex |-> <<"0","2">>, expr |-> ExprNumber(<<"2">>)],
    [lex |-> <<"3","0">>, expr |-> ExprNumber(<<"3","0">>)],
    [lex |-> <<"t","r","u","e">>, expr |-> ExprBool(TRUE)],
    [lex |-> <<"'","s"," ","t","'">>, expr |-> ExprString(<<"s"," ","t">>)],
    [lex |-> <<"*">>, expr |-> ExprIdentifier(<<"*">>)]>>

AtomTriples == {<<1, 2, 3>>, <<4, 5, 6>>, <<7, 8, 9>>}

\* the binary operators with the binding powers the specification gives
BinOps ==
  <<[lex |-> <<"+">>, op |-> "Plus", bp |-> 5],
    [lex |-> <<"-">>, op |-> "Minus", bp |-> 5],
    [lex |-> <<"*">>, op |-> "Multiply", bp |-> 6],
    [lex |-> <<"/">>, op |-> "Divide", bp |-> 6],
    [lex |-> <<">">>, op |-> "GreaterThan", bp |-> 4],
    [lex |-> <<">","=">>, op |-> "GreaterThanOrEqual", bp |-> 4],
    [lex |-> <<"<">>, op |-> "LessThan", bp |-> 4],
    [lex |-> <<"<","=">>, op |-> "LessThanOrEqual", bp |-> 4],
    [lex |-> <<"=">>, op |-> "Equal", bp |-> 3],
    [lex |-> <<"!","=">>, op |-> "NotEqual", bp |-> 3],
    [lex |-> <<"a","n","d">>, op |-> "And", bp |-> 2],
    [lex |-> <<"O","R">>, op |-> "Or", bp |-> 1]>>

PrefixOps ==
  <<[lex |-> <<"-">>, op |-> "Minus"],
    [lex |-> <<"+">>, op |-> "Plus"],
    [lex |-> <<"N","o","t">>, op |-> "Not"]>>

BinaryShapes ==
  {[family |-> "binary", atoms |-> t, op1 |-> i, op2 |-> j] :
     t \in AtomTriples, i \in 1..Len(BinOps), j \in 1..Len(BinOps)}

\* plain: u x b y    nested: u u2 x b y    group: u ( x b y ) b2 z
\* right: x b u y b2 z
PrefixShapes ==
  {[family |-> "prefix", form |-> "plain", atoms |-> t, u |-> u, u2 |-> u, b |-> b, b2 |-> b] :
     t \in AtomTriples, u \in 1..Len(PrefixOps), b \in 1..Len(BinOps)}
  \cup
  {[family |-> "prefix", form |-> "nested", atoms |-> <<1, 2, 3>>, u |-> u, u2 |-> u2, b |-> b, b2 |-> b] :
     u \in 1..Len(PrefixOps), u2 \in 1..Len(PrefixOps), b \in 1..Len(BinOps)}
  \cup
  {[family |-> "prefix", form |-> f, atoms |-> <<1, 2, 3>>, u |-> u, u2 |-> u, b |-> b, b2 |-> b2] :
     f \in {"group", "right"}, u \in 1..Len(PrefixOps), b \in 1..Len(BinOps),
     b2 \in {1, 3, 9, 12}}

RenderBinary(s) ==
  Words(<<Atoms[s.atoms[1]].lex, BinOps[s.op1].lex, Atoms[s.atoms[2]].lex,
          BinOps[s.op2].lex, Atoms[s.atoms[3]].lex>>)

RenderPrefix(s) ==
  LET x == Atoms[s.atoms[1]].lex
      y == Atoms[s.atoms[2]].lex
      z == Atoms[s.atoms[3]].lex
      u == PrefixOps[s.u].lex
      u2 == PrefixOps[s.u2].lex
      b == BinOps[s.b].lex
      b2 == BinOps[s.b2].lex
  IN  CASE s.form = "plain" -> Words(<<u, x, b, y>>)
        [] s.form = "nested" -> Words(<<u, u2, x, b, y>>)
        [] s.form = "group" -> Words(<<u, <<"(">>, x, b, y, <<")">>, b2, z>>)
        [] s.form = "right" -> Words(<<x, b, u, y, b2, z>>)

\* expressions used as columns, predicates, order keys and CHECK bodies
Snippets ==
  <<<<<<"a">>>>,
    <<<<"*">>>>,
    <<<<"a">>, <<"+">>, <<"1">>>>,
    <<<<"a","g","e">>, <<">","=">>, <<"1","8">>>>,
    <<<<"-">>, <<"a">>, <<"*">>, <<"2">>>>,
    <<<<"(">>, <<"a">>, <<"O","R">>, <<"b">>, <<")">>, <<"a","n","d">>, <<"c">>>>>>

\* what follows the statement in the input
Tails ==
  <<<<>>, <<" ">>, <<" ","x">>, <<"@">>, <<" ","S","E","L","E","C","T"," ","b"," ","F","R","O","M"," ","u",";">>, <<" ","'","o","p","e","n">>>>

Keys == {[key |-> k, dir |-> d] : k \in {1, 3}, d \in {"", "ASC", "DESC"}}

DirLex(d) ==
  CASE d = "" -> <<>>
    [] d = "ASC" -> <<<<"a","s","c">>>>
    [] d = "DESC" -> <<<<"D","E","S","C">>>>

\* names tried in the table-name and the column-name position
PlainNames == {<<"t">>, <<"u","s","e","r","s">>, <<"_","b","y">>, <<"b","y","1">>, <<"s","e","l","e","c","t","s">>}

ReservedNames ==
  UNION {CaseMixes(k) : k \in {kBY, kOR, kKEY, kINT}}
  \cup Range(KeywordTable)
  \cup {<<"d","e",LongS,"c">>, <<LongS,"e","l","e","c","t">>}

SelectShape(cols, from, where, order, keys, semi, tail) ==
  [family |-> "select", cols |-> cols, from |-> from, where |-> where,
   order |-> order, keys |-> keys, semi |-> semi, tail |-> tail]

\* order: "none" no clause, "keys" ORDER BY keys, "noby" ORDER keys
SelectShapes ==
  {SelectShape(c, <<"t">>, w, "none", <<>>, TRUE, t) :
     c \in SeqsUpTo(1..4, 1, MaxCols), w \in {0, 4, 6}, t \in 1..Len(Tails)}
  \cup
  {SelectShape(<<1>>, <<"t">>, w, o, k, TRUE, 1) :
     w \in {0, 4}, o \in {"keys", "noby"}, k \in SeqsUpTo(Keys, 0, MaxKeys)}
  \cup
  {SelectShape(<<1>>, n, 0, "none", <<>>, TRUE, 1) :
     n \in PlainNames \cup ReservedNames}
  \cup
  {SelectShape(c, <<"t">>, w, "none", <<>>, s, 1) :
     c \in {<<>>, <<1>>}, w \in {0, 4}, s \in BOOLEAN}

RenderSelect(s) ==
  Words(<<kSELECT>>
        \o Separated([i \in 1..Len(s.cols) |-> Snippets[s.cols[i]]], <<",">>)
        \o <<<<"F","R","O","M">>, s.from>>
        \o (IF s.where = 0 THEN <<>> ELSE <<<<"w","h","e","r","e">>>> \o Snippets[s.where])
        \o (CASE s.order = "none" -> <<>>
              [] s.order = "keys" -> <<kORDER, kBY>>
              [] s.order = "noby" -> <<kORDER>>)
        \o Separated([i \in 1..Len(s.keys) |->
                        Snippets[s.keys[i].key] \o DirLex(s.keys[i].dir)], <<",">>)
        \o (IF s.semi THEN <<<<";">>>> ELSE <<>>))
  \o Tails[s.tail]

\* column types: the lexemes, whether the specification accepts them, and
\* the DBType it gives
Types ==
  <<[lex |-> <<<<"I","N","T">>>>, good |-> TRUE, type |-> DBInt],
    [lex |-> <<<<"b","o","o","l">>>>, good |-> TRUE, type |-> DBBool],
    [lex |-> <<<<"V","A","R","C","H","A","R">>, <<"(">>, <<"2","5","5">>, <<")">>>>, good |-> TRUE, type |-> DBVarchar(<<"2","5","5">>)],
    [lex |-> <<<<"v","a","r","c","h","a","r">>, <<"(">>, <<"0","0","7">>, <<")">>>>, good |-> TRUE, type |-> DBVarchar(<<"7">>)],
    [lex |-> <<<<"V","A","R","C","H","A","R">>, <<"(">>, <<"1","8","4","4","6","7","4","4","0","7","3","7","0","9","5","5","1","6","1","5">>, <<")">>>>, good |-> TRUE, type |-> DBVarchar(<<"1","8","4","4","6","7","4","4","0","7","3","7","0","9","5","5","1","6","1","5">>)],
    [lex |-> <<<<"V","A","R","C","H","A","R">>, <<"(">>, <<"0">>, <<")">>>>, good |-> FALSE, type |-> DBInt],
    [lex |-> <<<<"V","A","R","C","H","A","R">>, <<"(">>, <<"0","0">>, <<")">>>>, good |-> FALSE, type |-> DBInt],
    [lex |-> <<<<"V","A","R","C","H","A","R">>>>, good |-> FALSE, type |-> DBInt],
    [lex |-> <<<<"V","A","R","C","H","A","R">>, <<"(">>, <<"x">>, <<")">>>>, good |-> FALSE, type |-> DBInt],
    [lex |-> <<<<"V","A","R","C","H","A","R">>, <<"(">>, <<"2","5","5">>>>, good |-> FALSE, type |-> DBInt],
    [lex |-> <<<<"V","A","R","C","H","A","R">>, <<"(">>, <<")">>>>, good |-> FALSE, type |-> DBInt],
    [lex |-> <<<<"V","A","R","C","H","A","R">>, <<"(">>, <<"1","8","4","4","6","7","4","4","0","7","3","7","0","9","5","5","1","6","1","6">>, <<")">>>>, good |-> FALSE, type |-> DBInt],
    [lex |-> <<<<"V","A","R","C","H","A","R">>, <<"(">>, <<"-">>, <<"1">>, <<")">>>>, good |-> FALSE, type |-> DBInt],
    [lex |-> <<<<"V","A","R","C","H","A","R">>, <<"(">>, <<"'","5","'">>, <<")">>>>, good |-> FALSE, type |-> DBInt],
    [lex |-> <<<<"T","E","X","T">>>>, good |-> FALSE, type |-> DBInt],
    [lex |-> <<<<"T","A","B","L","E">>>>, good |-> FALSE, type |-> DBInt],
    [lex |-> <<<<"(">>, <<"2","5","5">>, <<")">>>>, good |-> FALSE, type |-> DBInt]>>

Accepted(S) == {i \in 1..Len(S) : S[i].good}

\* column constraints: the lexemes, whether they are well formed, and the
\* Constraint the specification gives
Constraints ==
  <<[lex |-> <<<<"P","R","I","M","A","R","Y">>, <<"K","E","Y">>>>, good |-> TRUE, val |-> PrimaryKey],
    [lex |-> <<<<"n","o","t">>, <<"n","u","l","l">>>>, good |-> TRUE, val |-> NotNull],
    [lex |-> <<<<"C","H","E","C","K">>, <<"(">>, <<"a">>, <<">">>, <<"1">>, <<")">>>>, good |-> TRUE, val |-> Check(BinaryOperation(ExprIdentifier(<<"a">>), "GreaterThan", ExprNumber(<<"1">>)))],
    [lex |-> <<<<"P","R","I","M","A","R","Y">>>>, good |-> FALSE, val |-> NotNull],
    [lex |-> <<<<"N","O","T">>>>, good |-> FALSE, val |-> NotNull],
    [lex |-> <<<<"C","H","E","C","K">>, <<"a">>, <<">">>, <<"1">>>>, good |-> FALSE, val |-> NotNull],
    [lex |-> <<<<"C","H","E","C","K">>, <<"(">>, <<"a">>, <<">">>, <<"1">>>>, good |-> FALSE, val |-> NotNull],
    [lex |-> <<<<"P","R","I","M","A","R","Y">>, <<"N","U","L","L">>>>, good |-> FALSE, val |-> NotNull],
    [lex |-> <<<<"N","O","T">>, <<"K","E","Y">>>>, good |-> FALSE, val |-> NotNull],
    [lex |-> <<<<"C","H","E","C","K">>, <<"(">>, <<")">>>>, good |-> FALSE, val |-> NotNull]>>

\* tokens that are none of PRIMARY, NOT, CHECK, put after the constraints of
\* a column (0: nothing is put there)
Stops ==
  <<<<"K","E","Y">>, <<"N","U","L","L">>, <<"x">>, <<"1">>, <<"I","N","T">>>>

Column(name, type, cons, stop) == [name |-> name, type |-> type, cons |-> cons, stop |-> stop]

GoodColumn == Column(<<"i","d">>, 1, <<1>>, 0)

CreateShape(table, cols, semi, tail) ==
  [family |-> "create", table |-> table, cols |-> cols, semi |-> semi, tail |-> tail]

CreateShapes ==
  {CreateShape(<<"t">>, <<Column(<<"c">>, ty, <<>>, 0)>>, TRUE, t) :
     ty \in 1..Len(Types), t \in {1, 3}}
  \cup
  {CreateShape(<<"t">>, <<Column(<<"c">>, ty, cs, 0)>>, TRUE, 1) :
     ty \in {1, 3}, cs \in SeqsUpTo(1..Len(Constraints), 1, MaxConstraints)}
  \cup
  {CreateShape(<<"t">>, <<Column(<<"c">>, 2, cs, st)>>, TRUE, 1) :
     cs \in SeqsUpTo(Accepted(Constraints), 0, 1), st \in 1..Len(Stops)}
  \cup
  {CreateShape(<<"t">>, cl, s, 1) :
     cl \in SeqsUpTo({GoodColumn, Column(<<"c">>, 3, <<2, 3>>, 0), Column(<<"c">>, 6, <<>>, 0),
                      Column(<<"c">>, 15, <<1>>, 0), Column(<<"c">>, 2, <<4>>, 0)},
                     0, MaxColumns),
     s \in BOOLEAN}
  \cup
  {CreateShape(n, <<Column(m, 1, <<>>, 0)>>, TRUE, 1) :
     n \in {<<"t">>, kBY, <<"k","e","y">>}, m \in PlainNames \cup ReservedNames}

RenderColumn(c) ==
  <<c.name>> \o Types[c.type].lex
  \o Cat([i \in 1..Len(c.cons) |-> Constraints[c.cons[i]].lex])
  \o (IF c.stop = 0 THEN <<>> ELSE <<Stops[c.stop]>>)

RenderCreate(s) ==
  Words(<<kCREATE, <<"T","a","b","l","e">>, s.table, <<"(">>>>
        \o Separated([i \in 1..Len(s.cols) |-> RenderColumn(s.cols[i])], <<",">>)
        \o <<<<")">>>>
        \o (IF s.semi THEN <<<<";">>>> ELSE <<>>))
  \o Tails[s.tail]

\* the inputs of the tests of parser.rs and tokenizer.rs, and others written
\* without the spaces Words puts between lexemes
Literals ==
  <<<<"S","E","L","E","C","T"," ","n","a","m","e",","," ","a","g","e"," ","F","R","O","M"," ","u","s","e","r","s",";">>,
    <<"S","E","L","E","C","T"," ","i","d"," ","F","R","O","M"," ","u","s","e","r","s"," ","W","H","E","R","E"," ","a","g","e"," ",">","="," ","1","8",";">>,
    <<"C","R","E","A","T","E"," ","T","A","B","L","E"," ","u","s","e","r","s","(","i","d"," ","I","N","T"," ","P","R","I","M","A","R","Y"," ","K","E","Y",","," ","n","a","m","e"," ","V","A","R","C","H","A","R","(","2","5","5",")"," ","N","O","T"," ","N","U","L","L",")",";">>,
    <<"S","E","L","E","C","T"," ","a"," ","F","R","O","M"," ","t"," ","O","R","D","E","R"," ","B","Y"," ","a"," ","D","E","S","C",";">>,
    <<"s","e","l","e","c","t"," ","'","x",";","y","'",",","-","1","+","2","*","3"," ","f","r","o","m"," ","t"," ","w","h","e","r","e"," ","a","!","=","b"," ","o","r"," ","c","<","=","1"," ","o","r","d","e","r"," ","b","y"," ","a"," ","a","s","c",",","b",";">>,
    <<"S","E","L","E","C","T"," ","*"," ","F","R","O","M"," ","u","s","e","r","s",";">>,
    <<"'","h","e","l","l","o","'"," ","\"","w","o","r","l","d","\"">>,
    <<"4","2"," ",">","="," ","3","0">>,
    <<"S","E","L","E","C","T"," ","@"," ","F","R","O","M"," ","t",";">>,
    <<"S","E","L","E","C","T"," ","a",",","b"," ","F","R","O","M"," ","t"," ","W","H","E","R","E"," ","a","=","1"," ","O","R","D","E","R"," ","B","Y"," ","a",",","b"," ","+">>,
    <<"'","a","\\","\"","'"," ","\"","b","'">>>>

LiteralShapes == {[family |-> "literal", text |-> i] : i \in 1..Len(Literals)}

\* characters the tokenizer has no arm for, and the two it has one for only
\* in part ('!' without '=', a quote that is never closed)
Strays == {"@", "#", "!", "\""}

\* the literal input base with the character ch put after its first at
\* characters
NoiseShapes ==
  {[family |-> "noise", base |-> b, at |-> n, ch |-> c] :
     b \in {1, 3, 4, 5}, n \in 0..MaxNoiseAt, c \in Strays}

RenderNoise(s) ==
  LET base == Literals[s.base]
      at == IF s.at > Len(base) THEN Len(base) ELSE s.at
  IN  SubSeq(base, 1, at) \o <<s.ch>> \o SubSeq(base, at + 1, Len(base))

\* single words: every case mix of every keyword, and words that are none
WordShapes ==
  {[family |-> "word", word |-> w] :
     w \in UNION {CaseMixes(KeywordTable[i]) : i \in 1..Len(KeywordTable)}
           \cup PlainNames \cup ReservedNames \cup {<<"b">>, <<"1","b","y">>, <<"b","y","_">>, <<"B","Y",LongS>>}}

\* what a string literal is written with: the two quotes, the backslash, a
\* letter and a space
StringChars == {"'", "\"", "\\", "a", " "}

\* every text of up to MaxStringLen of these characters
StringShapes ==
  {[family |-> "string", text |-> t] : t \in SeqsUpTo(StringChars, 1, MaxStringLen)}

Shapes ==
  BinaryShapes \cup PrefixShapes \cup SelectShapes \cup CreateShapes
  \cup LiteralShapes \cup NoiseShapes \cup WordShapes \cup StringShapes

Render(s) ==
  CASE s.family = "binary" -> RenderBinary(s)
    [] s.family = "prefix" -> RenderPrefix(s)
    [] s.family = "select" -> RenderSelect(s)
    [] s.family = "create" -> RenderCreate(s)
    [] s.family = "literal" -> Literals[s.text]
    [] s.family = "noise" -> RenderNoise(s)
    [] s.family = "word" -> s.word
    [] s.family = "string" -> s.text

(***************************************************************************)
(* The state machine.  From one input string a Tokenizer and a Parser are  *)
(* constructed; a run then drives one of the two objects, which share      *)
(* nothing but the immutable input.                                        *)
(*   emitted  what the Tokenizer's next has returned so far, in order      *)
(*   result   what the last call of the Parser returned (ok, val)          *)
(*   called   the method last called on the Parser, calls how many calls   *)
(***************************************************************************)
NoResult == [ok |-> FALSE, val |-> [node |-> "NotCalled"]]

Init ==
  /\ shape \in Shapes
  /\ input = Render(shape)
  /\ tokenizer = tokenizer_new(input)
  /\ emitted = <<>>
  /\ parser = parser_new(input)
  /\ result = NoResult
  /\ called = "none"
  /\ calls = 0

Ended == Len(SelectSeq(emitted, LAMBDA t : t = None))

Collected(n) ==
  /\ tokenizer' = n.t
  /\ emitted' = Append(emitted, n.tok)

\* Tokenizer::next, as tokenizer.collect() and any later caller drive it
TokenizerNext ==
  /\ calls = 0
  /\ Ended < MaxEndCalls
  /\ Collected(next(tokenizer))
  /\ UNCHANGED <<shape, input, parser, result, called, calls>>

Returned(r, method) ==
  /\ parser' = r.p
  /\ result' = [ok |-> r.ok, val |-> r.val]
  /\ called' = method
  /\ calls' = calls + 1
  /\ UNCHANGED <<shape, input, tokenizer, emitted>>

\* Parser::parse_statement
ParseStatement ==
  /\ emitted = <<>>
  /\ calls < MaxCalls
  /\ Returned(parse_statement(parser), "parse_statement")

\* Parser::parse_expression(0)
ParseExpression ==
  /\ emitted = <<>>
  /\ calls < MaxCalls
  /\ Returned(parse_expression(parser, 0), "parse_expression")

Next == TokenizerNext \/ ParseStatement \/ ParseExpression

Spec == Init /\ [][Next]_vars

(***************************************************************************)
(* Properties                                                              *)
(***************************************************************************)
OkResult(v) == [ok |-> TRUE, val |-> v]

\* the first call on the parser was `method`, and it has returned
First(method) == calls = 1 /\ called = method

Last(s) == s[Len(s)]

AtomExpr(s, i) == Atoms[s.atoms[i]].expr

\* the Expression a snippet parses to on its own
SnippetExpr(i) == parse_expression(parser_new(Words(Snippets[i])), 0).val

\* Tokenizer::collect: every token of the input, in order
RECURSIVE collect(_)
RECURSIVE collect_from(_)
collect(T) == collect_from(next(T))

collect_from(n) == IF n.tok = None THEN <<>> ELSE <<n.tok>> \o collect(n.t)

\* C1: in `a lo b hi c` with binding power(hi) > binding power(lo),
\* parse_expression(0) returns a lo (b hi c), and in `a hi b lo c` it returns
\* (a hi b) lo c: the operator that binds tighter is the nested subtree.
C1_Precedence ==
  (shape.family = "binary" /\ First("parse_expression")) =>
    /\ BinOps[shape.op2].bp > BinOps[shape.op1].bp =>
         result = OkResult(BinaryOperation(
                    AtomExpr(shape, 1), BinOps[shape.op1].op,
                    BinaryOperation(AtomExpr(shape, 2), BinOps[shape.op2].op,
                                    AtomExpr(shape, 3))))
    /\ BinOps[shape.op1].bp > BinOps[shape.op2].bp =>
         result = OkResult(BinaryOperation(
                    BinaryOperation(AtomExpr(shape, 1), BinOps[shape.op1].op,
                                    AtomExpr(shape, 2)),
                    BinOps[shape.op2].op, AtomExpr(shape, 3)))

\* `1 + 02 * 30` has been parsed, with the multiplication on the right of +
C1_Witness ==
  /\ shape = [family |-> "binary", atoms |-> <<4, 5, 6>>, op1 |-> 1, op2 |-> 3]
  /\ First("parse_expression")
  /\ result.ok
  /\ result.val.operator = "Plus"
  /\ result.val.right_operand.node = "BinaryOperation"
  /\ result.val.right_operand.operator = "Multiply"

\* C2: in `a op1 b op2 c` with operators of one binding power,
\* parse_expression(0) returns (a op1 b) op2 c.
C2_LeftAssociative ==
  (shape.family = "binary" /\ First("parse_expression")
   /\ BinOps[shape.op1].bp = BinOps[shape.op2].bp) =>
    result = OkResult(BinaryOperation(
               BinaryOperation(AtomExpr(shape, 1), BinOps[shape.op1].op,
                               AtomExpr(shape, 2)),
               BinOps[shape.op2].op, AtomExpr(shape, 3)))

\* `1 - 02 - 30` has been parsed as (1 - 2) - 30
C2_Witness ==
  /\ shape = [family |-> "binary", atoms |-> <<4, 5, 6>>, op1 |-> 2, op2 |-> 2]
  /\ First("parse_expression")
  /\ result.ok
  /\ result.val.left_operand.node = "BinaryOperation"
  /\ result.val.left_operand.operator = "Minus"
  /\ result.val.right_operand = ExprNumber(<<"3","0">>)

IsPrefix(operator) == operator \in {"Minus", "Plus", "Not"}

\* no prefix operation of the tree e has a binary operation as its operand
RECURSIVE PrefixOverAtoms(_)
PrefixOverAtoms(e) ==
  CASE e.node = "UnaryOperation" ->
         /\ IsPrefix(e.operator) => e.operand.node # "BinaryOperation"
         /\ PrefixOverAtoms(e.operand)
    [] e.node = "BinaryOperation" ->
         PrefixOverAtoms(e.left_operand) /\ PrefixOverAtoms(e.right_operand)
    [] OTHER -> TRUE

Prefixed(s, i) == UnaryOperation(AtomExpr(s, i), PrefixOps[s.u].op)

\* C3: a prefix operator takes the nearest atom, parenthesized group or
\* nested prefix expression as its operand: `u x b y` is (u x) b y,
\* `u u2 x b y` is (u (u2 x)) b y, `u ( x b y ) b2 z` is (u (x b y)) b2 z,
\* `x b u y b2 z` has u y as an operand of b or of b2; and with no
\* parenthesis in the input no prefix operation is over a binary operation.
C3_UnaryBindsTighter ==
  /\ (shape.family = "prefix" /\ First("parse_expression")) =>
       CASE shape.form = "plain" ->
              result = OkResult(BinaryOperation(Prefixed(shape, 1), BinOps[shape.b].op,
                                                AtomExpr(shape, 2)))
         [] shape.form = "nested" ->
              result = OkResult(BinaryOperation(
                         UnaryOperation(UnaryOperation(AtomExpr(shape, 1),
                                                       PrefixOps[shape.u2].op),
                                        PrefixOps[shape.u].op),
                         BinOps[shape.b].op, AtomExpr(shape, 2)))
         [] shape.form = "group" ->
              result = OkResult(BinaryOperation(
                         UnaryOperation(BinaryOperation(AtomExpr(shape, 1),
                                                        BinOps[shape.b].op,
                                                        AtomExpr(shape, 2)),
                                        PrefixOps[shape.u].op),
                         BinOps[shape.b2].op, AtomExpr(shape, 3)))
         [] shape.form = "right" ->
              result =
                IF BinOps[shape.b2].bp > BinOps[shape.b].bp
                THEN OkResult(BinaryOperation(
                       AtomExpr(shape, 1), BinOps[shape.b].op,
                       BinaryOperation(Prefixed(shape, 2), BinOps[shape.b2].op,
                                       AtomExpr(shape, 3))))
                ELSE OkResult(BinaryOperation(
                       BinaryOperation(AtomExpr(shape, 1), BinOps[shape.b].op,
                                       Prefixed(shape, 2)),
                       BinOps[shape.b2].op, AtomExpr(shape, 3)))
  /\ (First("parse_expression") /\ result.ok
      /\ (shape.family = "binary"
          \/ (shape.family = "prefix" /\ shape.form # "group"))) =>
       PrefixOverAtoms(result.val)

\* `- 1 + 02` has been parsed as (- 1) + 2
C3_Witness ==
  /\ shape = [family |-> "prefix", form |-> "plain", atoms |-> <<4, 5, 6>>,
              u |-> 1, u2 |-> 1, b |-> 1, b2 |-> 1]
  /\ First("parse_expression")
  /\ result = OkResult(BinaryOperation(
                UnaryOperation(ExprNumber(<<"1">>), "Minus"), "Plus",
                ExprNumber(<<"2">>)))

HasInvalid(toks) == \E i \in 1..Len(toks) : toks[i].kind = "Invalid"

\* an Invalid token comes before every `;` token of toks
InvalidBeforeSemicolon(toks) ==
  \E i \in 1..Len(toks) :
    /\ toks[i].kind = "Invalid"
    /\ \A j \in 1..(i - 1) : toks[j] # Tok("Semicolon")

\* C4 as stated: an input with a character the tokenizer makes an Invalid
\* token of, at any position, makes parse_statement return Err.
C4_AnyInvalidFails ==
  (First("parse_statement") /\ HasInvalid(collect(tokenizer_new(input)))) =>
    ~result.ok

\* C4 as amended: an input with an Invalid token that is not after the
\* first `;` token makes parse_statement return Err, and a call that
\* returns Ok has advanced over no Invalid token.
C4_InvalidBeforeEndFails ==
  First("parse_statement") =>
    /\ InvalidBeforeSemicolon(collect(tokenizer_new(input))) => ~result.ok
    /\ result.ok =>
         \A i \in 1..Len(parser.consumed) : parser.consumed[i].tok.kind # "Invalid"

\* a stray character put inside the statement has made parse_statement fail
C4_Witness ==
  /\ shape.family = "noise"
  /\ InvalidBeforeSemicolon(collect(tokenizer_new(input)))
  /\ First("parse_statement")
  /\ ~result.ok

\* C5 as stated: when parse_statement returns Ok the tokens consumed end
\* with `;` and no character after that `;` has been taken from the input.
C5_NothingReadAfterSemicolon ==
  (called = "parse_statement" /\ result.ok) =>
    /\ Last(parser.consumed).tok = Tok("Semicolon")
    /\ parser.tokenizer.taken = Last(parser.consumed).end

ResultOf(r) == [ok |-> r.ok, val |-> r.val]

\* C5 as amended: when parse_statement returns Ok the tokens consumed end
\* with `;`, the parser holds as current_token the one token (or Eof) that
\* follows the `;`, whose characters are the last taken from the input, a
\* first call has consumed one `;` only, and its result is that of the
\* input cut after the `;`.
C5_OneStatementOneLookahead ==
  (called = "parse_statement" /\ result.ok) =>
    /\ Last(parser.consumed).tok = Tok("Semicolon")
    /\ input[Last(parser.consumed).end] = ";"
    /\ parser.tokenizer.taken =
         tokenizer_next(input, Last(parser.consumed).end).pos
    /\ parser.current_token =
         unwrap_or_eof(tokenizer_next(input, Last(parser.consumed).end).tok)
    /\ calls = 1 =>
         /\ Cardinality({i \in 1..Len(parser.consumed) :
                           parser.consumed[i].tok = Tok("Semicolon")}) = 1
         /\ result = ResultOf(parse_statement(parser_new(
                       SubSeq(input, 1, Last(parser.consumed).end))))

\* a statement followed by ` x` has been parsed, and x is the current token
C5_Witness ==
  /\ shape.family = "select"
  /\ shape.tail = 3
  /\ First("parse_statement")
  /\ result.ok
  /\ parser.current_token = TokIdentifier(<<"x">>)
  /\ parser.tokenizer.taken = Len(input)

\* the word uppercases to a keyword
IsReserved(w) == \E i \in 1..Len(KeywordTable) : w \in CaseMixes(KeywordTable[i])

\* C6: every case mix of a keyword is emitted as that Keyword; an
\* Identifier carries the text of the input as written, and that text
\* uppercased is no keyword; a keyword in the table-name or column-name
\* position makes parse_statement fail.
C6_ReservedWords ==
  /\ (shape.family = "word" /\ Len(emitted) >= 1) =>
       \A i \in 1..Len(KeywordTable) :
         shape.word \in CaseMixes(KeywordTable[i]) =>
           /\ emitted[1] = TokKeyword(KeywordTable[i])
           /\ Len(emitted) >= 2 => emitted[2] = None
  /\ (Len(emitted) >= 1 /\ Last(emitted).kind = "Identifier") =>
       /\ Last(emitted).val =
            SubSeq(input, tokenizer.taken - Len(Last(emitted).val) + 1, tokenizer.taken)
       /\ ~IsReserved(Last(emitted).val)
       /\ to_uppercase(Last(emitted).val) \notin Range(KeywordTable)
  /\ (First("parse_statement") /\ shape.family = "select" /\ IsReserved(shape.from)) =>
       ~result.ok
  /\ (First("parse_statement") /\ shape.family = "create"
      /\ (IsReserved(shape.table)
          \/ \E i \in 1..Len(shape.cols) : IsReserved(shape.cols[i].name))) =>
       ~result.ok

\* the word sElecT has been emitted as Keyword(Select), and nothing after it
C6_Witness ==
  /\ shape = [family |-> "word", word |-> <<"s","E","l","e","c","T">>]
  /\ emitted = <<TokKeyword(kSELECT), None>>

PlainSelect(s) ==
  /\ s.family = "select"
  /\ Len(s.cols) >= 1
  /\ s.from \in PlainNames
  /\ s.semi

\* C7: `SELECT e1, ..., en FROM t [WHERE p] ;` gives Select with the n
\* columns in input order, from = t, where = Some(p) exactly when WHERE is
\* there, and an empty orderby when there is no ORDER BY.
C7_SelectColumnsFromWhere ==
  /\ (PlainSelect(shape) /\ shape.order = "none" /\ First("parse_statement")) =>
       result = OkResult(Select(
                  [i \in 1..Len(shape.cols) |-> SnippetExpr(shape.cols[i])],
                  shape.from,
                  IF shape.where = 0 THEN NoWhere
                  ELSE SomeWhere(SnippetExpr(shape.where)),
                  <<>>))
  /\ (shape = [family |-> "literal", text |-> 1] /\ First("parse_statement")) =>
       result = OkResult(Select(<<ExprIdentifier(<<"n","a","m","e">>), ExprIdentifier(<<"a","g","e">>)>>,
                                <<"u","s","e","r","s">>, NoWhere, <<>>))
  /\ (shape = [family |-> "literal", text |-> 2] /\ First("parse_statement")) =>
       result = OkResult(Select(
                  <<ExprIdentifier(<<"i","d">>)>>, <<"u","s","e","r","s">>,
                  SomeWhere(BinaryOperation(ExprIdentifier(<<"a","g","e">>),
                                            "GreaterThanOrEqual",
                                            ExprNumber(<<"1","8">>))),
                  <<>>))

\* `SELECT a , a + 1 FROM t where age >= 18 ;` has been parsed
C7_Witness ==
  /\ shape = SelectShape(<<1, 3>>, <<"t">>, 4, "none", <<>>, TRUE, 1)
  /\ First("parse_statement")
  /\ result.ok
  /\ result.val.columns =
       <<ExprIdentifier(<<"a">>),
         BinaryOperation(ExprIdentifier(<<"a">>), "Plus", ExprNumber(<<"1">>))>>
  /\ result.val.where.node = "Some"
  /\ result.val.orderby = <<>>

\* the order key the specification gives for key k
Tagged(k) ==
  CASE k.dir = "" -> SnippetExpr(k.key)
    [] k.dir = "ASC" -> UnaryOperation(SnippetExpr(k.key), "Asc")
    [] k.dir = "DESC" -> UnaryOperation(SnippetExpr(k.key), "Desc")

\* C8: `... ORDER BY k1 [ASC|DESC], ..., km [ASC|DESC];` gives m order keys
\* in input order, key i tagged Asc after ASC, Desc after DESC and bare
\* after neither; ORDER not followed by BY fails.
C8_OrderByTagging ==
  /\ (PlainSelect(shape) /\ shape.order = "keys" /\ Len(shape.keys) >= 1
      /\ First("parse_statement")) =>
       /\ result.ok
       /\ result.val.orderby = [i \in 1..Len(shape.keys) |-> Tagged(shape.keys[i])]
       /\ result.val.columns = [i \in 1..Len(shape.cols) |-> SnippetExpr(shape.cols[i])]
  /\ (PlainSelect(shape) /\ shape.order = "noby" /\ First("parse_statement")) =>
       ~result.ok
  /\ (shape = [family |-> "literal", text |-> 4] /\ First("parse_statement")) =>
       result = OkResult(Select(<<ExprIdentifier(<<"a">>)>>, <<"t">>, NoWhere,
                                <<UnaryOperation(ExprIdentifier(<<"a">>), "Desc")>>))

\* `... ORDER BY a DESC , a + 1 ;` has been parsed: two keys, the first
\* tagged Desc, the second bare
C8_Witness ==
  /\ shape.family = "select"
  /\ shape.keys = <<[key |-> 1, dir |-> "DESC"], [key |-> 3, dir |-> ""]>>
  /\ shape.order = "keys"
  /\ First("parse_statement")
  /\ result.ok
  /\ result.val.orderby[1] = UnaryOperation(ExprIdentifier(<<"a">>), "Desc")
  /\ result.val.orderby[2].node = "BinaryOperation"

PlainCreate(s) ==
  /\ s.family = "create"
  /\ s.table \in PlainNames
  /\ s.semi
  /\ Len(s.cols) >= 1
  /\ \A i \in 1..Len(s.cols) :
       s.cols[i].name \in PlainNames \cup {<<"c">>, <<"i","d">>} /\ Types[s.cols[i].type].good

WellFormed(c) == \A i \in 1..Len(c.cons) : Constraints[c.cons[i]].good

ColumnOf(c) ==
  TableColumn(c.name, Types[c.type].type,
              [i \in 1..Len(c.cons) |-> Constraints[c.cons[i]].val])

\* C9: after a column's type each PRIMARY KEY, NOT NULL and CHECK ( expr )
\* is appended to the column's constraints in input order; a malformed one
\* makes the parse fail; constraint parsing stops at the first token that
\* is none of PRIMARY, NOT, CHECK and leaves it as the current token.
C9_ColumnConstraints ==
  /\ (PlainCreate(shape) /\ First("parse_statement")) =>
       /\ (\A i \in 1..Len(shape.cols) : WellFormed(shape.cols[i]) /\ shape.cols[i].stop = 0)
            => result = OkResult(CreateTable(
                          shape.table,
                          [i \in 1..Len(shape.cols) |-> ColumnOf(shape.cols[i])]))
       /\ (\E i \in 1..Len(shape.cols) : ~WellFormed(shape.cols[i])) => ~result.ok
       /\ (Len(shape.cols) = 1 /\ WellFormed(shape.cols[1]) /\ shape.cols[1].stop # 0) =>
            /\ result = [ok |-> FALSE,
                         val |-> [node |-> "Err", msg |-> "Expected ',' or ')'"]]
            /\ parser.current_token =
                 next(tokenizer_new(Stops[shape.cols[1].stop])).tok
            /\ Len(parser.consumed) =
                 Len(collect(tokenizer_new(Words(
                   <<kCREATE, kTABLE, shape.table, <<"(">>>>
                   \o RenderColumn(Column(shape.cols[1].name, shape.cols[1].type,
                                          shape.cols[1].cons, 0))))))
  /\ (shape = [family |-> "literal", text |-> 3] /\ First("parse_statement")) =>
       result = OkResult(CreateTable(
                  <<"u","s","e","r","s">>,
                  <<TableColumn(<<"i","d">>, DBInt, <<PrimaryKey>>),
                    TableColumn(<<"n","a","m","e">>, DBVarchar(<<"2","5","5">>), <<NotNull>>)>>))

\* a column with NOT NULL and then CHECK ( a > 1 ) has been parsed
C9_Witness ==
  /\ shape.family = "create"
  /\ Len(shape.cols) = 1
  /\ shape.cols[1].cons = <<2, 3>>
  /\ First("parse_statement")
  /\ result.ok
  /\ result.val.column_list[1].constraints[1] = NotNull
  /\ result.val.column_list[1].constraints[2].node = "Check"

\* C10 as stated: a column's type is accepted exactly when it is INT, BOOL
\* or VARCHAR(n) with n a positive integer literal, and gives that DBType;
\* every other token sequence makes parse_statement return Err.
C10_ColumnTypes ==
  (shape.family = "create" /\ shape.table \in PlainNames /\ shape.semi
   /\ Len(shape.cols) = 1 /\ shape.cols[1].cons = <<>> /\ shape.cols[1].stop = 0
   /\ shape.cols[1].name \in PlainNames \cup {<<"c">>, <<"i","d">>}
   /\ First("parse_statement")) =>
    IF Types[shape.cols[1].type].good
    THEN result = OkResult(CreateTable(
                    shape.table,
                    <<TableColumn(shape.cols[1].name, Types[shape.cols[1].type].type,
                                  <<>>)>>))
    ELSE ~result.ok

Quotes == {"'", "\""}

Least(S) == CHOOSE n \in S : \A m \in S : n <= m

\* the characters of inp after the first `taken` that are not whitespace
Unskipped(inp, taken) == {i \in (taken + 1)..Len(inp) : ~is_whitespace(inp[i])}

\* the later occurrences in inp of the character at p
Closing(inp, p) == {e \in (p + 1)..Len(inp) : inp[e] = inp[p]}

\* what a call of next has to emit, and where it has to leave the tokenizer,
\* when the character it meets at p is a quote
StringEmitted(p) ==
  IF Closing(input, p) # {}
  THEN /\ emitted' = Append(emitted,
                            TokString(SubSeq(input, p + 1, Least(Closing(input, p)) - 1)))
       /\ tokenizer'.taken = Least(Closing(input, p))
  ELSE /\ emitted' = Append(emitted, TokInvalid(input[p]))
       /\ tokenizer'.taken = Len(input)

\* an Invalid token that carries a quote is followed by end-of-sequence only
EndsAfterOpenString(tokens) ==
  \A i \in 1..Len(tokens) :
    (tokens[i].kind = "Invalid" /\ tokens[i].val[1] \in Quotes) =>
      \A j \in (i + 1)..Len(tokens) : tokens[j] = None

StringStep ==
  /\ (Unskipped(input, tokenizer.taken) # {}
      /\ input[Least(Unskipped(input, tokenizer.taken))] \in Quotes) =>
       StringEmitted(Least(Unskipped(input, tokenizer.taken)))
  /\ EndsAfterOpenString(emitted')

\* C11: a call of next that meets a quote q emits String(s), s the
\* characters up to and not including the next q (the other quote and the
\* backslash are content), and leaves the tokenizer just after that q; with
\* no later q it emits Invalid(q) and has taken the whole input, and every
\* later call returns None.
C11_StringLiterals == [][emitted' # emitted => StringStep]_vars

\* a String holding the other quote or a backslash has been emitted, then an
\* unclosed quote as Invalid with the whole input taken, then None
C11_Witness ==
  /\ Len(emitted) >= 3
  /\ emitted[Len(emitted) - 2].kind = "String"
  /\ \E c \in Range(emitted[Len(emitted) - 2].val) : c \in {"'", "\"", "\\"}
  /\ emitted[Len(emitted) - 1].kind = "Invalid"
  /\ emitted[Len(emitted) - 1].val[1] \in Quotes
  /\ Last(emitted) = None
  /\ tokenizer.taken = Len(input)

\* the k-th token the parser P has pulled from its tokenizer: those it has
\* advanced over, then its current token
Pulled(P, k) ==
  IF k <= Len(P.consumed) THEN P.consumed[k].tok ELSE P.current_token

\* the characters the tokenizer had taken when P pulled its k-th token
TakenAt(P, k) ==
  IF k = 0 THEN 0
  ELSE IF k <= Len(P.consumed) THEN P.consumed[k].end
  ELSE P.tokenizer.taken

\* the tokens that let a loop go round again
OperatorKinds ==
  {"Plus", "Minus", "Star", "Divide", "GreaterThan", "GreaterThanOrEqual",
   "LessThan", "LessThanOrEqual", "Equal", "NotEqual"}

IsBinaryOperator(tok) ==
  tok.kind \in OperatorKinds \/ tok \in {TokKeyword(kAND), TokKeyword(kOR)}

\* the loop entered at e went round on a token it accepts: the operator or
\* the constraint keyword it is at, or the comma (for the first turn, the
\* token that opens the list) it has just passed
GoesOnAToken(P, e) ==
  CASE e.at = "parse_expression" -> TRUE
    [] e.at = "loop of parse_expression" -> IsBinaryOperator(Pulled(P, e.consumed + 1))
    [] e.at = "loop of parse_column_constraints" ->
         Pulled(P, e.consumed + 1) \in
           {TokKeyword(kPRIMARY), TokKeyword(kNOT), TokKeyword(kCHECK)}
    [] e.at = "loop of parse_select_columns" ->
         e.consumed >= 1
         /\ Pulled(P, e.consumed) \in {Tok("Comma"), TokKeyword(kSELECT)}
    [] e.at = "loop of parse_orderby" ->
         e.consumed >= 1 /\ Pulled(P, e.consumed) \in {Tok("Comma"), TokKeyword(kBY)}
    [] e.at = "loop of parse_create_table" ->
         e.consumed >= 1
         /\ Pulled(P, e.consumed) \in {Tok("Comma"), Tok("LeftParentheses")}

\* for the entries of P from the one numbered `from` on: between an
\* earlier entry of the same call or loop and this one a token has been
\* consumed, and the entry is not made on Eof as the reason to go on
Progress(P, from) ==
  \A j \in from..Len(P.entered) :
    /\ \A i \in 1..(j - 1) :
         P.entered[i].at = P.entered[j].at =>
           P.entered[i].consumed < P.entered[j].consumed
    /\ P.entered[j].consumed <= Len(P.consumed)
    /\ GoesOnAToken(P, P.entered[j])

\* the token n of the tokenizer, or Eof when it is exhausted, is what P
\* holds as its k-th token, the tokenizer left where n leaves it
PulledIs(P, k, n) ==
  /\ Pulled(P, k) = IF n.tok = None THEN Eof ELSE n.tok
  /\ TakenAt(P, k) = n.pos

\* the tokens numbered from..to that P has pulled are the tokens of the
\* input in order, and Eof for every pull after the last of them
PulledInOrder(P, from, to) ==
  \A k \in from..to : PulledIs(P, k, tokenizer_next(input, TakenAt(P, k - 1)))

\* what P had pulled and entered before a call is what Q has pulled and
\* entered first, in order
PulledBefore(P, Q) ==
  /\ Len(P.consumed) <= Len(Q.consumed)
  /\ Len(P.entered) <= Len(Q.entered)
  /\ SubSeq(Q.entered, 1, Len(P.entered)) = P.entered
  /\ \A k \in 0..(Len(P.consumed) + 1) : TakenAt(P, k) = TakenAt(Q, k)
  /\ \A k \in 1..(Len(P.consumed) + 1) : Pulled(P, k) = Pulled(Q, k)

\* once Eof has been pulled, every pull from the one numbered `from` on
\* gives Eof
EofStays(P, from) ==
  \A k \in from..(Len(P.consumed) + 1) :
    (k >= 2 /\ Pulled(P, k - 1) = Eof) => Pulled(P, k) = Eof

\* a call on the parser has returned: what it has entered and pulled since
\* it was made is in order (what came before it was so when it was made)
Terminates ==
  /\ result'.ok \/ result'.val.node = "Err"
  /\ PulledBefore(parser, parser')
  /\ Progress(parser', Len(parser.entered) + 1)
  /\ PulledInOrder(parser', 1, 1)
  /\ PulledInOrder(parser', Len(parser.consumed) + 2, Len(parser'.consumed) + 1)
  /\ EofStays(parser', Len(parser.consumed) + 2)

\* C12: every call of parse_statement (or parse_expression) returns Ok or
\* Err; every call of parse_expression and every turn of a loop is entered
\* with more tokens consumed than the one before it; the tokens pulled are
\* those of the input and then Eof for ever; and no loop goes round on Eof:
\* each goes round on an operator, a constraint keyword or a comma only.
C12_Termination == [][calls' # calls => Terminates]_vars

\* parse_statement has returned Err after the loops of parse_select_columns,
\* parse_orderby and parse_expression have each gone round, and after an
\* advance with the tokenizer exhausted that left Eof in place of Eof
C12_Witness ==
  /\ First("parse_statement")
  /\ ~result.ok
  /\ Len(parser.consumed) >= 1
  /\ Last(parser.consumed).tok = Eof
  /\ parser.current_token = Eof
  /\ \A at \in {"loop of parse_select_columns", "loop of parse_orderby"} :
       Cardinality({i \in 1..Len(parser.entered) : parser.entered[i].at = at}) = 2
  /\ \E i \in 1..Len(parser.entered) :
       parser.entered[i].at = "loop of parse_expression"

====
